---------------------------- MODULE Spec2Model ----------------------------
(***************************************************************************)
(* Airline Management System (src/main.py): the Flask request handlers,   *)
(* the SQLite tables they read and write, the per-client session, and the *)
(* bootstrap block, as a state machine.                                    *)
(*                                                                         *)
(* Text values whose characters matter (LIKE patterns, ticket ids, the     *)
(* max_price form field) are sequences of one-character strings; text      *)
(* values that are only compared for equality are TLA+ strings.            *)
(*                                                                         *)
(* flash() is modelled by the response's flash field, not by the           *)
(* "_flashes" key Flask keeps in the session until the next page renders   *)
(* it: session holds the keys the handlers themselves read and write.      *)
(***************************************************************************)
EXTENDS Integers, Sequences, FiniteSets, TLC

VARIABLES
    admins,      \* table admins: rows [admin_id, username, password]
    users,       \* table users: rows [user_id, username, password, role]
    promotions,  \* table promotions: rows [code, discount, expiration_date]
    passengers,  \* table passengers: rows [passenger_id, ticket_id, insurance]
    flights,     \* table flights: rows [flight_number, destination, departure, price]
    logs,        \* table logs: rows [log_id, action]
    session,     \* flask.session of the one client: a map key -> value
    request,     \* the request handled last, with the clock reading it made
    response,    \* what the handler answered: [flash, to, rows]
    pc,          \* the bootstrap block's position
    started,     \* history: the tables as the bootstrap block found them
    lastLogin,   \* history: the table the last successful login matched
    sinceLogout, \* history: the kinds of login that succeeded since the last logout
    redemptions  \* history: the codes accepted since the session was last cleared

vars == <<admins, users, promotions, passengers, flights, logs, session,
          request, response, pc, started, lastLogin, sinceLogout, redemptions>>

tables == <<admins, users, promotions, passengers, flights, logs>>
history == <<lastLogin, sinceLogout, redemptions>>
boot == <<pc, started>>

(***************************************************************************)
(* Bounds                                                                  *)
(***************************************************************************)
\* Calendar days 0..MaxDay; expiration dates are drawn from them.
MaxDay == 1
\* Length of the text typed into the search form's fields.
MaxLen == 2

(***************************************************************************)
(* Time.  datetime.now() is the wall clock, read by the handler: a day and *)
(* a time of day.  A parsed "%Y-%m-%d" date is that day at 00:00:00.       *)
(* tod 0 is exactly midnight, tod 1 any later time of the same day.        *)
(***************************************************************************)
Days == 0 .. MaxDay
Tods == {0, 1}
Instants == [day : Days, tod : Tods]

\* datetime a > datetime b
After(a, b) == \/ a.day > b.day
               \/ a.day = b.day /\ a.tod > b.tod

\* A stored expiration_date is TEXT: a day of Days written as "%Y-%m-%d",
\* or text that does not match the format (BadDate).
BadDate == -1
DateTexts == Days \cup {BadDate}

\* datetime.strptime(text, "%Y-%m-%d"): defined on well-formed text only.
WellFormed(text) == text \in Days
strptime(text) == [day |-> text, tod |-> 0]

(***************************************************************************)
(* The session: a map from keys to values; session.get(k) is None for a    *)
(* key that is not set.                                                    *)
(***************************************************************************)
EmptySession == [k \in {} |-> TRUE]
Has(s, k) == k \in DOMAIN s
Put(s, k, v) == (k :> v) @@ s

\* An admin route, had its gate been left out.
GateRejectsNoGate(s) == FALSE
\* session.get("role") != "admin" is the admin gate of both admin routes.
GateRejects(s) == ~(Has(s, "role") /\ s["role"] = "admin")

(***************************************************************************)
(* Queries                                                                 *)
(***************************************************************************)
\* SELECT * FROM <table> WHERE username = ? AND password = ?
Matching(table, username, password) ==
    {r \in table : r.username = username /\ r.password = password}

\* fetch_one: the first row of the result, None when it is empty.  username
\* is UNIQUE in both tables, so the result holds at most one row.
FetchOne(rows) == CHOOSE r \in rows : TRUE

\* SELECT * FROM promotions WHERE code = ?
PromotionsByCode(code) == {p \in promotions : p.code = code}

\* The promotions table, had code not been declared UNIQUE.
CodeTakenNever(code) == FALSE
\* The UNIQUE constraint on promotions.code: the insert raises IntegrityError.
CodeTaken(code) == PromotionsByCode(code) # {}

(***************************************************************************)
(* Decimal text of a route's <int:ticket_id>.  ticket_id is a TEXT column, *)
(* so SQLite compares it with the integer parameter's decimal text.        *)
(***************************************************************************)
Digit == <<"0", "1", "2", "3", "4", "5", "6", "7", "8", "9">>

RECURSIVE IntToText(_)
IntToText(n) == IF n < 10 THEN <<Digit[n + 1]>>
                ELSE IntToText(n \div 10) \o <<Digit[(n % 10) + 1]>>

\* The value of a decimal digit, -1 for any other character.
DigitValue(c) == IF \E i \in DOMAIN Digit : Digit[i] = c
                 THEN (CHOOSE i \in DOMAIN Digit : Digit[i] = c) - 1
                 ELSE -1

\* Text that SQLite's numeric conversion takes for an integer: digits only.
IsDigits(text) == Len(text) > 0 /\ \A i \in DOMAIN text : DigitValue(text[i]) >= 0

RECURSIVE TextToInt(_)
TextToInt(text) ==
    IF Len(text) = 0 THEN 0
    ELSE 10 * TextToInt(SubSeq(text, 1, Len(text) - 1)) + DigitValue(text[Len(text)])

\* UPDATE passengers SET insurance = 1, had the WHERE clause been left out.
InsureAll(rows, ticket_id) == {[p EXCEPT !.insurance = TRUE] : p \in rows}
\* UPDATE passengers SET insurance = 1 WHERE ticket_id = ?
Insure(rows, ticket_id) ==
    {IF p.ticket_id = IntToText(ticket_id) THEN [p EXCEPT !.insurance = TRUE] ELSE p
       : p \in rows}

(***************************************************************************)
(* Inputs and seed data of the request specification                       *)
(***************************************************************************)
Usernames == {"admin", "test_user"}
Passwords == {"admin123", "user123"}
Roles == {"user", "admin", "staff"}
Codes == {"WELCOME10", "PROMO20"}
Discounts == {10, 20}
TicketInputs == {7, 12}

SeedAdmins == {[admin_id |-> 1, username |-> "admin", password |-> "admin123"]}
SeedUsers ==
    {[user_id |-> 1, username |-> "test_user", password |-> "user123", role |-> "user"]}
SeedPassengers ==
    {[passenger_id |-> 1, ticket_id |-> <<"7">>, flight_id |-> 1, insurance |-> FALSE],
     [passenger_id |-> 2, ticket_id |-> <<"7">>, flight_id |-> 2, insurance |-> FALSE],
     [passenger_id |-> 3, ticket_id |-> <<"0", "7">>, flight_id |-> 1, insurance |-> FALSE],
     [passenger_id |-> 4, ticket_id |-> <<"1", "2">>, flight_id |-> 1, insurance |-> TRUE],
     [passenger_id |-> 5, ticket_id |-> <<"T", "7">>, flight_id |-> 2, insurance |-> FALSE]}
SeedLogs == {[log_id |-> 1, action |-> "Test Action"]}

NoRequest == [route |-> "none", method |-> "none"]
\* A response: the flashed message, the values formatted into it, the redirect
\* target or the rendered template, and the rows handed to the template.
NoResponse == [flash |-> "none", shown |-> {}, to |-> "none", rows |-> {}]

Answer(flash, to, rows) == [flash |-> flash, shown |-> {}, to |-> to, rows |-> rows]
AnswerWith(flash, shown, to, rows) ==
    [flash |-> flash, shown |-> {shown}, to |-> to, rows |-> rows]

(***************************************************************************)
(* Routes                                                                  *)
(***************************************************************************)
\* The session after a POST /login with these credentials, had the users
\* table been looked at first.
LoginSessionUserFirst(s, username, password) ==
    LET user == Matching(users, username, password)
        admin == Matching(admins, username, password)
    IN  IF user # {}
        THEN Put(Put(Put(Put(s, "user_logged_in", TRUE),
                         "user_id", FetchOne(user).user_id),
                     "username", username),
                 "role", FetchOne(user).role)
        ELSE IF admin # {}
        THEN Put(Put(Put(s, "admin_logged_in", TRUE),
                     "admin_id", FetchOne(admin).admin_id),
                 "role", "admin")
        ELSE s
\* The session after a POST /login with these credentials.
LoginSession(s, username, password) ==
    LET user == Matching(users, username, password)
        admin == Matching(admins, username, password)
    IN  IF admin # {}
        THEN Put(Put(Put(s, "admin_logged_in", TRUE),
                     "admin_id", FetchOne(admin).admin_id),
                 "role", "admin")
        ELSE IF user # {}
        THEN Put(Put(Put(Put(s, "user_logged_in", TRUE),
                         "user_id", FetchOne(user).user_id),
                     "username", username),
                 "role", FetchOne(user).role)
        ELSE s

LoginAnswer(username, password) ==
    IF Matching(admins, username, password) # {}
    THEN Answer("Admin logged in successfully!", "admin_dashboard", {})
    ELSE IF Matching(users, username, password) # {}
    THEN Answer("User logged in successfully!", "user_dashboard", {})
    ELSE Answer("Invalid username or password!", "login.html", {})

\* GET /login renders the form.
LoginGet ==
    /\ request' = [route |-> "login", method |-> "GET"]
    /\ response' = Answer("none", "login.html", {})
    /\ UNCHANGED <<tables, session, boot, history>>

\* POST /login
LoginPost(username, password) ==
    /\ request' = [route |-> "login", method |-> "POST",
                   username |-> username, password |-> password]
    /\ session' = LoginSession(session, username, password)
    /\ response' = LoginAnswer(username, password)
    /\ lastLogin' = IF Matching(admins, username, password) # {} THEN "admins"
                    ELSE IF Matching(users, username, password) # {} THEN "users"
                    ELSE lastLogin
    /\ sinceLogout' = sinceLogout \cup
          (IF Matching(admins, username, password) # {} THEN {"admins"}
           ELSE IF Matching(users, username, password) = {} THEN {}
           ELSE IF FetchOne(Matching(users, username, password)).role = "admin"
           THEN {"users as admin"}
           ELSE {"users"})
    /\ UNCHANGED <<tables, boot, redemptions>>

\* session.clear(), had it kept the role.
ClearedKeepRole(s) == IF Has(s, "role") THEN ("role" :> s["role"]) ELSE EmptySession
\* session.clear()
Cleared(s) == EmptySession

\* GET /logout
Logout ==
    /\ request' = [route |-> "logout", method |-> "GET"]
    /\ session' = Cleared(session)
    /\ response' = Answer("You have been logged out.", "login", {})
    /\ sinceLogout' = {}
    /\ redemptions' = {}
    /\ UNCHANGED <<tables, boot, lastLogin>>

Unauthorized == Answer("Unauthorized access!", "login", {})

\* GET /admin/promotions
ManagePromotionsGet ==
    /\ request' = [route |-> "manage_promotions", method |-> "GET"]
    /\ response' = IF GateRejects(session) THEN Unauthorized
                   ELSE Answer("none", "manage_promotions.html", promotions)
    /\ UNCHANGED <<tables, session, boot, history>>

\* POST /admin/promotions
ManagePromotionsPost(code, discount, expiration_date) ==
    /\ request' = [route |-> "manage_promotions", method |-> "POST", code |-> code,
                   discount |-> discount, expiration_date |-> expiration_date]
    /\ IF GateRejects(session)
       THEN /\ promotions' = promotions
            /\ response' = Unauthorized
       ELSE IF CodeTaken(code)
       THEN /\ promotions' = promotions
            /\ response' = Answer("Promotion code already exists!",
                                  "manage_promotions.html", promotions)
       ELSE /\ promotions' = promotions \cup
                   {[code |-> code, discount |-> discount,
                     expiration_date |-> expiration_date]}
            /\ response' = Answer("Promotion added successfully!",
                                  "manage_promotions.html", promotions')
    /\ UNCHANGED <<admins, users, passengers, flights, logs, session, boot, history>>

\* Whether apply_promotion takes the promotion for expired at the instant now.
Expired(promotion, now) == After(now, strptime(promotion.expiration_date))

\* The session after an accepted redemption, had a staged discount been kept.
StagedKeepFirst(s, promotion) ==
    IF Has(s, "discount") THEN s ELSE Put(s, "discount", promotion.discount)
\* The session after an accepted redemption.
Staged(s, promotion) == Put(s, "discount", promotion.discount)

\* POST /apply_promotion; now is what datetime.now() returns to the handler.
ApplyPromotion(code, now) ==
    /\ request' = [route |-> "apply_promotion", method |-> "POST", code |-> code,
                   now |-> now]
    /\ IF PromotionsByCode(code) = {}
       THEN /\ response' = Answer("Invalid promotion code!", "user_dashboard", {})
            /\ UNCHANGED <<session, redemptions>>
       ELSE LET promotion == FetchOne(PromotionsByCode(code))
            IN  IF ~ WellFormed(promotion.expiration_date)
                THEN \* strptime raises ValueError, which nothing catches
                     /\ response' = Answer("none", "500 Internal Server Error", {})
                     /\ UNCHANGED <<session, redemptions>>
                ELSE IF Expired(promotion, now)
                THEN /\ response' = Answer("Promotion has expired!", "user_dashboard", {})
                     /\ UNCHANGED <<session, redemptions>>
                ELSE /\ session' = Staged(session, promotion)
                     /\ response' = AnswerWith("Promotion applied! Discount: {}%",
                                               promotion.discount, "user_dashboard", {})
                     /\ redemptions' = redemptions \cup {code}
    /\ UNCHANGED <<tables, boot, lastLogin, sinceLogout>>

\* GET /add_insurance/<int:ticket_id>
AddInsurance(ticket_id) ==
    /\ request' = [route |-> "add_insurance", method |-> "GET",
                   ticket_id |-> ticket_id]
    /\ passengers' = Insure(passengers, ticket_id)
    /\ response' = Answer("Insurance added to your ticket.", "user_dashboard", {})
    /\ UNCHANGED <<admins, users, promotions, flights, logs, session, boot, history>>

\* GET /admin/logs
ViewLogs ==
    /\ request' = [route |-> "view_logs", method |-> "GET"]
    /\ response' = IF GateRejects(session) THEN Unauthorized
                   ELSE Answer("none", "view_logs.html", logs)
    /\ UNCHANGED <<tables, session, boot, history>>

(***************************************************************************)
(* Text of the search form and SQLite's LIKE                               *)
(***************************************************************************)
UpperCase == <<"A", "B", "C", "D", "E", "F", "G", "H", "I", "J", "K", "L", "M",
               "N", "O", "P", "Q", "R", "S", "T", "U", "V", "W", "X", "Y", "Z">>
LowerCase == <<"a", "b", "c", "d", "e", "f", "g", "h", "i", "j", "k", "l", "m",
               "n", "o", "p", "q", "r", "s", "t", "u", "v", "w", "x", "y", "z">>

\* LIKE compares ASCII letters without regard to case.
Fold(c) == IF \E i \in DOMAIN UpperCase : UpperCase[i] = c
           THEN LowerCase[CHOOSE i \in DOMAIN UpperCase : UpperCase[i] = c]
           ELSE c

\* text LIKE pattern: % matches any run of characters, _ any one character.
RECURSIVE Like(_, _)
Like(text, pattern) ==
    IF pattern = <<>> THEN text = <<>>
    ELSE IF Head(pattern) = "%"
    THEN \/ Like(text, Tail(pattern))
         \/ text # <<>> /\ Like(Tail(text), pattern)
    ELSE /\ text # <<>>
         /\ Head(pattern) = "_" \/ Fold(Head(pattern)) = Fold(Head(text))
         /\ Like(Tail(text), Tail(pattern))

\* str.strip()
RECURSIVE LStrip(_)
LStrip(text) == IF text # <<>> /\ Head(text) = " " THEN LStrip(Tail(text)) ELSE text
RECURSIVE RStrip(_)
RStrip(text) == IF text # <<>> /\ text[Len(text)] = " "
                THEN RStrip(SubSeq(text, 1, Len(text) - 1)) ELSE text
Strip(text) == RStrip(LStrip(text))

\* price <= ? with the form's text as parameter: price has REAL affinity, so text
\* that is a number is compared as a number, and any other text is greater than
\* every number.
PriceAtMost(price, text) == IF IsDigits(text) THEN price <= TextToInt(text) ELSE TRUE

\* The WHERE clause recommend_flights builds from the stripped fields.
Selected(f, destination, max_price, departure_date) ==
    /\ destination # <<>> => Like(f.destination, <<"%">> \o destination \o <<"%">>)
    /\ max_price # <<>> => PriceAtMost(f.price, max_price)
    /\ departure_date # <<>> => Like(f.departure, <<"%">> \o departure_date \o <<"%">>)

\* GET /recommend_flights renders the empty list.
RecommendFlightsGet ==
    /\ request' = [route |-> "recommend_flights", method |-> "GET"]
    /\ response' = Answer("none", "recommend_flights.html", {})
    /\ UNCHANGED <<tables, session, boot, history>>

\* POST /recommend_flights
RecommendFlightsPost(destination, max_price, departure_date) ==
    /\ request' = [route |-> "recommend_flights", method |-> "POST",
                   destination |-> destination, max_price |-> max_price,
                   departure_date |-> departure_date]
    /\ LET found == {f \in flights : Selected(f, Strip(destination), Strip(max_price),
                                              Strip(departure_date))}
       IN  response' = IF found = {}
                       THEN Answer("No flights match your criteria.",
                                   "recommend_flights.html", found)
                       ELSE AnswerWith("{} flight(s) found!", Cardinality(found),
                                       "recommend_flights.html", found)
    /\ UNCHANGED <<tables, session, boot, history>>

(***************************************************************************)
(* The bootstrap block                                                     *)
(***************************************************************************)
DefaultAdmin == [admin_id |-> 1, username |-> "admin", password |-> "admin123"]

\* The three sample flights; a departure '2024-12-15 08:00:00' is written
\* without its year, minutes and seconds.
SampleFlights ==
    {[flight_number |-> "AI101",
      destination |-> <<"N", "e", "w", " ", "Y", "o", "r", "k">>,
      departure |-> <<"1", "2", "-", "1", "5", " ", "0", "8">>, price |-> 500],
     [flight_number |-> "AI102",
      destination |-> <<"L", "o", "n", "d", "o", "n">>,
      departure |-> <<"1", "2", "-", "1", "6", " ", "1", "0">>, price |-> 450],
     [flight_number |-> "AI103",
      destination |-> <<"P", "a", "r", "i", "s">>,
      departure |-> <<"1", "2", "-", "1", "7", " ", "1", "3">>, price |-> 400]}

Snapshot(rerun) == [admins |-> admins, promotions |-> promotions,
                    flights |-> flights, rerun |-> rerun]

\* init_db(): CREATE TABLE IF NOT EXISTS leaves an existing table as it is.
InitDb ==
    /\ pc = "init_db"
    /\ pc' = "seed_admin"
    /\ UNCHANGED <<tables, session, request, response, started, history>>

\* if not fetch_one("SELECT * FROM admins"): insert the default admin
SeedAdmin ==
    /\ pc = "seed_admin"
    /\ admins' = IF admins = {} THEN {DefaultAdmin} ELSE admins
    /\ pc' = "seed_promotion"
    /\ UNCHANGED <<users, promotions, passengers, flights, logs, session, request,
                   response, started, history>>

\* if not fetch_one("SELECT * FROM promotions"): the insert's parameter calls
\* timedelta, a name main.py never imports: NameError ends the process before
\* the query is run.
SeedPromotion ==
    /\ pc = "seed_promotion"
    /\ pc' = IF promotions = {} THEN "NameError" ELSE "seed_flights"
    /\ UNCHANGED <<tables, session, request, response, started, history>>

\* if not fetch_one("SELECT * FROM flights"): insert the three sample flights
SeedFlights ==
    /\ pc = "seed_flights"
    /\ flights' = IF flights = {} THEN SampleFlights ELSE flights
    /\ pc' = "run"
    /\ UNCHANGED <<admins, users, promotions, passengers, logs, session, request,
                   response, started, history>>

\* app.run(debug=True)
Run ==
    /\ pc = "run"
    /\ pc' = "serving"
    /\ UNCHANGED <<tables, session, request, response, started, history>>

\* python main.py once more, after the process ended or was stopped.
RunAgain ==
    /\ pc \in {"NameError", "serving"}
    /\ pc' = "init_db"
    /\ started' = Snapshot(TRUE)
    /\ UNCHANGED <<tables, session, request, response, history>>

(***************************************************************************)
(* The request specification: the application serving one client over the *)
(* seeded tables.  The search form is posted empty here; the search       *)
(* specification below posts every text.                                   *)
(***************************************************************************)
Serving ==
    /\ session = EmptySession
    /\ request = NoRequest
    /\ response = NoResponse
    /\ pc = "serving"
    /\ started = {}
    /\ lastLogin = "none"
    /\ sinceLogout = {"no logout"}
    /\ redemptions = {}

Init ==
    /\ admins = SeedAdmins
    /\ users = SeedUsers
    /\ promotions = {}
    /\ passengers = SeedPassengers
    /\ flights = SampleFlights
    /\ logs = SeedLogs
    /\ Serving

Next ==
    \/ LoginGet
    \/ \E username \in Usernames, password \in Passwords : LoginPost(username, password)
    \/ Logout
    \/ ManagePromotionsGet
    \/ \E code \in Codes, discount \in Discounts, expiration_date \in DateTexts :
          ManagePromotionsPost(code, discount, expiration_date)
    \/ \E code \in Codes, now \in Instants : ApplyPromotion(code, now)
    \/ \E ticket_id \in TicketInputs : AddInsurance(ticket_id)
    \/ ViewLogs
    \/ RecommendFlightsGet
    \/ RecommendFlightsPost(<<>>, <<>>, <<>>)

Spec == Init /\ [][Next]_vars

(***************************************************************************)
(* Properties of the request specification                                 *)
(***************************************************************************)
AdminSession(s) == "role" \in DOMAIN s /\ s["role"] = "admin"
Posted(route) == request'.route = route /\ request'.method = "POST"

UniqueCodes == \A p, q \in promotions : p.code = q.code => p = q

\* C1: an admin's create with a code not yet in the table succeeds and the
\* promotion is afterwards the one row retrievable by that code; a create with
\* a code already in the table is answered "already exists" and leaves the
\* table as it was; after every step no two promotion rows share a code.
C1_CreateOrReject ==
    [][/\ UniqueCodes'
       /\ (Posted("manage_promotions") /\ AdminSession(session)) =>
             LET row == [code |-> request'.code, discount |-> request'.discount,
                         expiration_date |-> request'.expiration_date]
             IN  IF \E p \in promotions : p.code = row.code
                 THEN /\ promotions' = promotions
                      /\ response'.flash = "Promotion code already exists!"
                 ELSE /\ promotions' = promotions \cup {row}
                      /\ {p \in promotions' : p.code = row.code} = {row}
                      /\ response'.flash = "Promotion added successfully!"]_vars

\* A create was rejected for a code whose stored row differs from the posted one,
\* and the stored row is still there.
C1_Witness ==
    /\ request.route = "manage_promotions" /\ request.method = "POST"
    /\ response.flash = "Promotion code already exists!"
    /\ \E p \in promotions : /\ p.code = request.code
                             /\ p.discount # request.discount
                             /\ p.expiration_date # request.expiration_date

\* C2: apply_promotion accepts a stored promotion and stages its discount
\* whenever the current time is at or before the expiration date, any time of
\* day on the expiration date included; it answers "expired" only when the
\* current time is after the expiration date; a code not in the table is
\* answered "invalid"; the invalid and expired outcomes leave the session's
\* discount as it was.
C2_ValidThroughExpirationDate ==
    [][request'.route = "apply_promotion" =>
         LET found == {p \in promotions : p.code = request'.code}
         IN  IF found = {}
             THEN /\ response'.flash = "Invalid promotion code!"
                  /\ session' = session
             ELSE \A p \in found : p.expiration_date \in Days =>
                     IF request'.now.day <= p.expiration_date
                     THEN /\ response'.flash = "Promotion applied! Discount: {}%"
                          /\ response'.shown = {p.discount}
                          /\ "discount" \in DOMAIN session'
                          /\ session'["discount"] = p.discount
                     ELSE /\ response'.flash = "Promotion has expired!"
                          /\ session' = session]_vars

\* C4: a request to /admin/logs or /admin/promotions made with a session whose
\* role is not "admin" is answered with the unauthorized redirect, is handed no
\* rows, and changes no table.
C4_AdminGate ==
    [][(request'.route \in {"view_logs", "manage_promotions"}
          /\ ~ AdminSession(session)) =>
             /\ response'.flash = "Unauthorized access!"
             /\ response'.to = "login"
             /\ response'.rows = {}
             /\ promotions' = promotions
             /\ logs' = logs]_vars

\* A logged-in user's POST to /admin/promotions was rejected, with a code the
\* table does not hold.
C4_Witness ==
    /\ request.route = "manage_promotions" /\ request.method = "POST"
    /\ response.flash = "Unauthorized access!"
    /\ "role" \in DOMAIN session /\ session["role"] = "user"
    /\ \A p \in promotions : p.code # request.code

\* The integer a route was called with equals a ticket_id text: the text is the
\* integer's decimal numeral.
EqualsTicket(text, n) ==
    /\ IsDigits(text)
    /\ Len(text) > 1 => text[1] # "0"
    /\ TextToInt(text) = n

Accepted(p, now) ==
    /\ p.expiration_date \in Days
    /\ \/ now.day < p.expiration_date
       \/ now.day = p.expiration_date /\ now.tod = 0

\* C8 as stated: once a redemption was accepted in a logged-in session, a
\* further apply_promotion is not accepted and leaves the staged discount.
C8_RedeemableOnce ==
    [][(request'.route = "apply_promotion" /\ redemptions # {}
          /\ "role" \in DOMAIN session) =>
             /\ response'.flash # "Promotion applied! Discount: {}%"
             /\ session' = session]_vars

\* C8 as amended: after an accepted redemption, a further apply_promotion with a
\* code that apply_promotion accepts is accepted again and replaces the staged
\* discount by that promotion's discount, the rest of the session kept.
C8_LastRedemptionWins ==
    [][(request'.route = "apply_promotion" /\ redemptions # {}) =>
         \A p \in promotions :
            (p.code = request'.code /\ Accepted(p, request'.now)) =>
               /\ response'.flash = "Promotion applied! Discount: {}%"
               /\ DOMAIN session' = DOMAIN session
               /\ session'["discount"] = p.discount
               /\ \A k \in DOMAIN session \ {"discount"} : session'[k] = session[k]]_vars

\* Both codes were accepted since the login, the second with another discount
\* than the first, and the second's discount is the one staged.
C8_Witness ==
    /\ request.route = "apply_promotion"
    /\ response.flash = "Promotion applied! Discount: {}%"
    /\ redemptions = Codes
    /\ "role" \in DOMAIN session
    /\ \E p, q \in promotions :
          /\ p.code = request.code /\ q.code # p.code
          /\ p.discount # q.discount
          /\ session["discount"] = p.discount

(***************************************************************************)
(* The login specification: the routes of the session over every content   *)
(* of the admins and users tables that the UNIQUE username columns allow.  *)
(***************************************************************************)
AdminId == [username \in Usernames |-> IF username = "admin" THEN 1 ELSE 2]
UserId == [username \in Usernames |-> IF username = "test_user" THEN 1 ELSE 2]

AdminRows == {[admin_id |-> AdminId[u], username |-> u, password |-> p]
                : u \in Usernames, p \in Passwords}
UserRows == {[user_id |-> UserId[u[1]], username |-> u[1], password |-> u[2],
              role |-> u[3]] : u \in Usernames \X Passwords \X Roles}

UniqueUsernames(table) == \A a, b \in table : a.username = b.username => a = b

SeedPromotions ==
    {[code |-> "WELCOME10", discount |-> 10, expiration_date |-> MaxDay]}

InitAuth ==
    /\ admins \in {t \in SUBSET AdminRows : UniqueUsernames(t)}
    /\ users \in {t \in SUBSET UserRows : UniqueUsernames(t)}
    /\ promotions = SeedPromotions
    /\ passengers = {}
    /\ flights = {}
    /\ logs = SeedLogs
    /\ Serving

\* The routes that read or write the session.
NextAuth ==
    \/ LoginGet
    \/ \E username \in Usernames, password \in Passwords : LoginPost(username, password)
    \/ Logout
    \/ ManagePromotionsGet
    \/ \E code \in Codes, now \in Instants : ApplyPromotion(code, now)
    \/ ViewLogs

SpecAuth == InitAuth /\ [][NextAuth]_vars

\* C6: credentials that equal an admins row log the admin in (role "admin", that
\* admin's id), also when they equal a users row as well, and write no user
\* identity; credentials that equal only a users row set that user's id and
\* username; credentials that equal no row are answered "invalid" and leave
\* the session as it was.
C6_AdminCheckedFirst ==
    [][Posted("login") =>
         LET asAdmin == {r \in admins : /\ r.username = request'.username
                                        /\ r.password = request'.password}
             asUser == {r \in users : /\ r.username = request'.username
                                      /\ r.password = request'.password}
             written == {k \in DOMAIN session' :
                           k \notin DOMAIN session \/ session'[k] # session[k]}
         IN  IF asAdmin # {}
             THEN /\ \A r \in asAdmin : /\ session'["role"] = "admin"
                                        /\ session'["admin_id"] = r.admin_id
                  /\ written \subseteq {"role", "admin_id", "admin_logged_in"}
                  /\ DOMAIN session \subseteq DOMAIN session'
                  /\ response'.flash = "Admin logged in successfully!"
             ELSE IF asUser # {}
             THEN /\ \A r \in asUser : /\ session'["user_id"] = r.user_id
                                       /\ session'["username"] = r.username
                  /\ response'.flash = "User logged in successfully!"
             ELSE /\ session' = session
                  /\ response'.flash = "Invalid username or password!"]_vars

\* The credentials posted equal a row of each table; the session is the admin's
\* and holds no user identity.
C6_Witness ==
    /\ request.route = "login" /\ request.method = "POST"
    /\ \E a \in admins, u \in users :
          /\ a.username = request.username /\ a.password = request.password
          /\ u.username = request.username /\ u.password = request.password
          /\ u.role = "user"
          /\ session["admin_id"] = a.admin_id
    /\ session["role"] = "admin"
    /\ DOMAIN session = {"role", "admin_id", "admin_logged_in"}

AdminRoutes == {"view_logs", "manage_promotions"}
AfterLogout == "no logout" \notin sinceLogout

\* C9 as stated: logout leaves the session empty, and from a logout until the
\* next login that matches an admins row every request to an admin route is
\* answered unauthorized.
C9_LoggedOutUntilAdminLogin ==
    [][/\ request'.route = "logout" => session' = EmptySession
       /\ (request'.route \in AdminRoutes /\ AfterLogout
             /\ "admins" \notin sinceLogout) =>
                response'.flash = "Unauthorized access!"]_vars

\* C9 as amended: logout leaves the session empty, and from a logout until the
\* next login that matches an admins row or a users row whose role column is
\* "admin" every request to an admin route is answered unauthorized.
C9_LoggedOutUntilRoleAdmin ==
    [][/\ request'.route = "logout" => session' = EmptySession
       /\ (request'.route \in AdminRoutes /\ AfterLogout
             /\ sinceLogout \cap {"admins", "users as admin"} = {}) =>
                /\ response'.flash = "Unauthorized access!"
                /\ response'.rows = {}]_vars

\* After a logout a user logged in and had a discount staged, and the logs were
\* refused.
C9_Witness ==
    /\ request.route = "view_logs"
    /\ response.flash = "Unauthorized access!"
    /\ sinceLogout = {"users"}
    /\ "discount" \in DOMAIN session
    /\ lastLogin = "users"

\* C10 as stated: the session role is absent, "admin" or "user", and it is
\* "admin" only if the last successful login matched an admins row.
C10_AdminOnlyFromAdmins ==
    "role" \in DOMAIN session =>
       /\ session["role"] \in {"admin", "user"}
       /\ session["role"] = "admin" => lastLogin = "admins"

\* C10 as amended: the session role is absent, "admin" after a login that
\* matched an admins row, or the role column of the users row that the last
\* successful login matched; so it is "admin" only if that login matched an
\* admins row or a users row whose role column is "admin".
C10_RoleFromMatchedRow ==
    "role" \in DOMAIN session =>
       /\ lastLogin \in {"admins", "users"}
       /\ lastLogin = "admins" => session["role"] = "admin"
       /\ lastLogin = "users" =>
             \E r \in users : /\ r.username = session["username"]
                              /\ r.user_id = session["user_id"]
                              /\ r.role = session["role"]
                              /\ \A a \in admins : a.username # r.username
                                                   \/ a.password # r.password

\* The last login matched only a users row whose role column is "admin"; the
\* session's role is "admin" and the logs were handed out.
C10_Witness ==
    /\ lastLogin = "users"
    /\ admins = {}
    /\ "role" \in DOMAIN session
    /\ session["role"] = "admin"
    /\ request.route = "view_logs"
    /\ response.rows = logs
    /\ response.to = "view_logs.html"

(***************************************************************************)
(* The search specification: recommend_flights over every flights table    *)
(* made of the sample flights.                                             *)
(***************************************************************************)
Texts(alphabet, n) == UNION {[1 .. k -> alphabet] : k \in 0 .. n}

DestinationInputs == Texts({"P", "p", "_", " "}, MaxLen)
MaxPriceInputs == {<<>>, <<" ", "4", "5", "0">>, <<"x">>}
DepartureInputs == {<<>>, <<"-", "1", "6">>}

InitSearch ==
    /\ admins = SeedAdmins
    /\ users = SeedUsers
    /\ promotions = {}
    /\ passengers = SeedPassengers
    /\ flights \in SUBSET SampleFlights
    /\ logs = SeedLogs
    /\ Serving

NextSearch ==
    \/ RecommendFlightsGet
    \/ \E destination \in DestinationInputs, max_price \in MaxPriceInputs,
          departure_date \in DepartureInputs :
             RecommendFlightsPost(destination, max_price, departure_date)

SpecSearch == InitSearch /\ [][NextSearch]_vars

\* text contains sub as a substring, letters compared without regard to case.
Contains(text, sub) ==
    \E i \in 0 .. Len(text) - Len(sub) :
       \A j \in 1 .. Len(sub) : Fold(text[i + j]) = Fold(sub[j])

Blank(text) == \A i \in DOMAIN text : text[i] = " "

\* C3: a POST to recommend_flights returns exactly the flights that satisfy all
\* supplied filters (destination contains the given text, price <= max_price,
\* departure contains the given text), a blank filter imposing no constraint,
\* and reports "no results" exactly when that set is empty.  Stated for a
\* max_price that is blank or a number, and with "contains" read in the way
\* most favourable to the code: without regard to the case of letters.
C3_ExactlyTheMatchingFlights ==
    (/\ request.route = "recommend_flights" /\ request.method = "POST"
     /\ Blank(request.max_price) \/ IsDigits(Strip(request.max_price))) =>
       LET matching ==
             {f \in flights :
                /\ ~ Blank(request.destination) =>
                      Contains(f.destination, Strip(request.destination))
                /\ ~ Blank(request.max_price) =>
                      f.price <= TextToInt(Strip(request.max_price))
                /\ ~ Blank(request.departure_date) =>
                      Contains(f.departure, Strip(request.departure_date))}
       IN  /\ response.rows = matching
           /\ response.flash = "No flights match your criteria." <=> matching = {}

(***************************************************************************)
(* The bootstrap specification: python main.py, run and run again, on a    *)
(* database file of any content.                                           *)
(***************************************************************************)
OtherAdmin == [admin_id |-> 2, username |-> "test_admin", password |-> "admin123"]
OtherFlight == [flight_number |-> "FL104", destination |-> <<"T", "o", "k", "y", "o">>,
                departure |-> <<"1", "2", "-", "2", "0", " ", "1", "4">>, price |-> 600]

InitBoot ==
    /\ admins \in SUBSET {DefaultAdmin, OtherAdmin}
    /\ users = {}
    /\ promotions \in SUBSET [code : Codes, discount : {10}, expiration_date : {MaxDay}]
    /\ passengers = {}
    /\ flights \in SUBSET {OtherFlight, CHOOSE f \in SampleFlights : f.price = 400}
    /\ logs = {}
    /\ session = EmptySession
    /\ request = NoRequest
    /\ response = NoResponse
    /\ pc = "init_db"
    /\ started = Snapshot(FALSE)
    /\ lastLogin = "none"
    /\ sinceLogout = {"no logout"}
    /\ redemptions = {}

NextBoot ==
    \/ InitDb
    \/ SeedAdmin
    \/ SeedPromotion
    \/ SeedFlights
    \/ Run
    \/ RunAgain

SpecBoot == InitBoot /\ [][NextBoot]_vars

Ended == pc \in {"NameError", "serving"}

\* C7: the bootstrap block run with the admins, promotions and flights tables
\* all empty completes and leaves one admin (the default one), one promotion
\* (WELCOME10) and three flights; a second run adds no row to any table.
C7_SeedsOnceThenSkips ==
    /\ (Ended /\ started.admins = {} /\ started.promotions = {}
          /\ started.flights = {}) =>
             /\ pc = "serving"
             /\ admins = {DefaultAdmin}
             /\ Cardinality(promotions) = 1
             /\ \A p \in promotions : p.code = "WELCOME10"
             /\ Cardinality(flights) = 3
    /\ (Ended /\ started.rerun) =>
             /\ admins = started.admins
             /\ promotions = started.promotions
             /\ flights = started.flights

==========================================================================
